---- MODULE Spec2Model ----
(***************************************************************************)
(* Online Config (SIP008) service of shadowsocks-service:                  *)
(* local/online_config/mod.rs.  OnlineConfigServiceBuilder::build runs one *)
(* cycle (run_once) and returns the service; OnlineConfigService::run      *)
(* sleeps and runs one cycle, forever.  A cycle is run_once_impl raced     *)
(* against a 30 s timer.                                                   *)
(***************************************************************************)
EXTENDS Integers, Sequences, FiniteSets, TLC

(* ------------------------------ bounds --------------------------------- *)
\* longest response body, in bytes, the remote streams in one cycle
MaxBody == 2
\* longest server list of the balancer when the builder is created
MaxPool == 1

(* ------------------------- program constants --------------------------- *)
\* Duration::from_secs(3600), the default update interval
DefaultInterval == 3600

(* ------------------------------ domains -------------------------------- *)
\* shadowsocks::config::ServerSource values carried by pool entries
Sources == {"Configuration", "OnlineConfig"}
\* server identities a config document can name
Ids == {"a", "b"}
\* pool entries: a server with the source that produced it
Entries == [id : Ids, source : Sources]
\* bytes the remote may send: 'a', 'b', and the two bytes of U+00E9
Bytes == {97, 98, 195, 169}
\* update intervals a caller may configure
Intervals == {60, 3600}
\* URLs a caller may give: one that hyper accepts as a URI, one it rejects
Urls == {"https://example.com/sip008.json", "not a uri"}
\* Content-Type header conditions of a response
ContentTypes == {"absent", "nonstr", "garbage", "text/plain",
                 "application/json", "application/json; charset=latin1",
                 "application/json; charset=utf-8"}
\* Content-Length header conditions of a response
ContentLengths == {"absent", "x", "-1", "1"}
\* response status codes
Statuses == {200, 404}

NoRsp == [status |-> 0, content_type |-> "absent", content_length |-> "absent"]
NoConfig == [server |-> <<>>]
NoneInstalled == [ok |-> FALSE, server |-> <<>>]

VARIABLES
    mode,                    \* builder | build | built | run | failed
    pc,                      \* position of the task inside run_once / run
    config_url,              \* OnlineConfigService::config_url
    config_update_interval,  \* OnlineConfigService::config_update_interval
    pool,                    \* the balancer's server list (shared, external)
    rsp,                     \* response head returned by send_request
    capacity,                \* capacity reserved ahead for collected_body
    collected_body,          \* bytes collected so far
    parsed_body,             \* the decoded text (code points)
    online_config,           \* the Config loaded from parsed_body
    result,                  \* io::Result of the last run_once
    streamed,                \* history: bytes handed out by the body stream
    stages,                  \* history: stages entered in the current cycle
    logged,                  \* history: log records of the current cycle
    pool0,                   \* history: pool when the current cycle started
    started,                 \* history: cycles started (none | one | many)
    inflight,                \* history: cycles started and not yet ended
    slept,                   \* history: duration of the last sleep, 0 if none
    installed,               \* history: server list handed over by the last Ok cycle
    status,                  \* history: status of the response of the current cycle
    peer_installed           \* history: server list handed over by another service

vars == <<mode, pc, config_url, config_update_interval, pool, rsp, capacity,
          collected_body, parsed_body, online_config, result, streamed,
          stages, logged, pool0, started, inflight, slept, installed, status,
          peer_installed>>

\* the fields of the service that never change after build
svcVars == <<config_url, config_update_interval>>
\* locals of run_once_impl
localVars == <<rsp, capacity, collected_body, parsed_body, online_config, streamed>>
\* scheduling history
histVars == <<pool0, started, inflight, slept, installed, status, peer_installed>>

(* ------------------------------ helpers -------------------------------- *)
SeqsUpTo(S, n) == UNION {[1..k -> S] : k \in 0..n}

\* hyper::Request::builder().uri(&self.config_url): Err for a string that is
\* no URI
UriValid(url) == url = "https://example.com/sip008.json"

\* String::from_utf8 on the byte alphabet (one- and two-byte forms)
RECURSIVE ValidUtf8(_)
ValidUtf8(b) ==
    IF b = <<>> THEN TRUE
    ELSE IF Head(b) < 128 THEN ValidUtf8(Tail(b))
    ELSE IF Head(b) \in 194..223 /\ Len(b) >= 2 /\ b[2] \in 128..191
         THEN ValidUtf8(Tail(Tail(b)))
    ELSE FALSE

\* the code points of a valid UTF-8 byte string
RECURSIVE DecodeUtf8(_)
DecodeUtf8(b) ==
    IF b = <<>> THEN <<>>
    ELSE IF Head(b) < 128 THEN <<Head(b)>> \o DecodeUtf8(Tail(b))
    ELSE <<(Head(b) - 192) * 64 + (b[2] - 128)>> \o DecodeUtf8(Tail(Tail(b)))

\* Config::load_from_str(text, ConfigType::OnlineConfig): Ok or Err
LoadOk(text) == \A i \in 1..Len(text) : text[i] \in {97, 98}

\* the Config it returns: one server per character, tagged OnlineConfig
LoadFromStr(text) ==
    [server |-> [i \in 1..Len(text) |->
                    [id |-> IF text[i] = 97 THEN "a" ELSE "b",
                     source |-> "OnlineConfig"]]]

\* Config::check_integrity: Err for a config naming a server twice
CheckIntegrityOk(cfg) ==
    \A i, j \in 1..Len(cfg.server) :
        cfg.server[i].id = cfg.server[j].id => i = j

\* PingBalancer::reset_servers(servers, replace_server_sources), on success
ResetServers(old, servers, sources) ==
    servers \o SelectSeq(old, LAMBDA e : e.source \notin sources)

\* a reset that names every source
ReplaceAllSources == Sources

\* a reset that names no source
ReplaceNoSources == {}

\* the second argument of reset_servers: &[ServerSource::OnlineConfig]
ReplaceSources == {"OnlineConfig"}

\* entries of a pool carrying a given set of sources, in order
Tagged(p, sources) == SelectSeq(p, LAMBDA e : e.source \in sources)

(* -------------------------------- Init --------------------------------- *)
\* OnlineConfigServiceBuilder::new(context, config_url, balancer)
Init ==
    /\ mode = "builder"
    /\ pc = "idle"
    /\ config_url \in Urls
    /\ config_update_interval = DefaultInterval
    /\ pool \in SeqsUpTo(Entries, MaxPool)
    /\ rsp = NoRsp
    /\ capacity = 0
    /\ collected_body = <<>>
    /\ parsed_body = <<>>
    /\ online_config = NoConfig
    /\ result = "none"
    /\ streamed = <<>>
    /\ stages = <<>>
    /\ logged = {}
    /\ pool0 = pool
    /\ started = "none"
    /\ inflight = 0
    /\ slept = 0
    /\ installed = NoneInstalled
    /\ status = 0
    /\ peer_installed = NoneInstalled


(* ----------------------- run_once: entry and exit ---------------------- *)
\* run_once arms the 30 s timer and starts run_once_impl (start_time taken)
EnterRunOnce ==
    /\ pc' = "request"
    /\ result' = "none"
    /\ rsp' = NoRsp
    /\ capacity' = 0
    /\ collected_body' = <<>>
    /\ parsed_body' = <<>>
    /\ online_config' = NoConfig
    /\ streamed' = <<>>
    /\ stages' = <<>>
    /\ logged' = {}
    /\ pool0' = pool
    /\ started' = IF started = "none" THEN "one" ELSE "many"
    /\ inflight' = inflight + 1
    /\ status' = 0

\* run_once returns res to its caller; the locals of run_once_impl are dropped
Return(res, record) ==
    /\ pc' = "done"
    /\ result' = res
    /\ logged' = logged \cup record
    /\ rsp' = NoRsp
    /\ capacity' = 0
    /\ collected_body' = <<>>
    /\ parsed_body' = <<>>
    /\ online_config' = NoConfig
    /\ streamed' = streamed
    /\ inflight' = inflight - 1

(* ------------------------------ builder -------------------------------- *)
\* OnlineConfigServiceBuilder::set_update_interval
SetUpdateInterval ==
    /\ mode = "builder"
    /\ \E d \in Intervals : config_update_interval' = d
    /\ UNCHANGED <<mode, pc, config_url, pool, localVars, result, stages,
                   logged, histVars>>

\* OnlineConfigServiceBuilder::build, up to its call of run_once
Build ==
    /\ mode = "builder"
    /\ mode' = "build"
    /\ EnterRunOnce
    /\ UNCHANGED <<svcVars, pool, slept, installed, peer_installed>>

\* a build that returns the service whatever run_once returned
BuildReturnAlways ==
    /\ mode = "build"
    /\ pc = "done"
    /\ mode' = "built"
    /\ pc' = "idle"
    /\ UNCHANGED <<svcVars, pool, localVars, result, stages, logged, histVars>>

\* build, after run_once: `?` passes the error on, otherwise Ok(service)
BuildReturn ==
    /\ mode = "build"
    /\ pc = "done"
    /\ mode' = IF result = "Ok" THEN "built" ELSE "failed"
    /\ pc' = "idle"
    /\ UNCHANGED <<svcVars, pool, localVars, result, stages, logged, histVars>>

(* ------------------------------ run loop ------------------------------- *)
\* the loop goes to sleep: the response of the last cycle is forgotten, its
\* result, stages and log records are remembered until the next cycle
ToSleep ==
    /\ pc' = "sleep"
    /\ streamed' = <<>>
    /\ status' = 0
    /\ UNCHANGED <<rsp, capacity, collected_body, parsed_body, online_config,
                   result, stages, logged, pool0, started, inflight, slept,
                   installed, peer_installed>>

\* OnlineConfigService::run, up to the first sleep
Run ==
    /\ mode = "built"
    /\ mode' = "run"
    /\ ToSleep
    /\ UNCHANGED <<svcVars, pool>>

\* a tick that starts a cycle while the previous one is still suspended
SleepNoWait ==
    /\ mode = "run"
    /\ pc \in {"sleep", "send", "body", "reset"}
    /\ slept' = config_update_interval
    /\ EnterRunOnce
    /\ UNCHANGED <<mode, svcVars, pool, installed, peer_installed>>

\* a loop that sleeps twice as long after a failed cycle
SleepBackoff ==
    /\ mode = "run"
    /\ pc = "sleep"
    /\ slept' = IF result \in {"none", "Ok"} THEN config_update_interval
                ELSE 2 * config_update_interval
    /\ EnterRunOnce
    /\ UNCHANGED <<mode, svcVars, pool, installed, peer_installed>>

\* the sleep of one iteration ends and the iteration calls run_once
Sleep ==
    /\ mode = "run"
    /\ pc = "sleep"
    /\ slept' = config_update_interval
    /\ EnterRunOnce
    /\ UNCHANGED <<mode, svcVars, pool, installed, peer_installed>>

\* a loop that passes a failed cycle's error on with `?`
RunReturnErr ==
    /\ mode = "run"
    /\ pc = "done"
    /\ mode' = IF result = "Ok" THEN "run" ELSE "failed"
    /\ pc' = IF result = "Ok" THEN "sleep" ELSE "idle"
    /\ UNCHANGED <<svcVars, pool, localVars, result, stages, logged, histVars>>

\* a loop that empties the OnlineConfig entries after a failed cycle
RunDiscardClear ==
    /\ mode = "run"
    /\ pc = "done"
    /\ ToSleep
    /\ pool' = IF result = "Ok" THEN pool ELSE ResetServers(pool, <<>>, {"OnlineConfig"})
    /\ UNCHANGED <<mode, svcVars>>

\* `let _ = self.run_once().await;` and the loop starts over
RunDiscard ==
    /\ mode = "run"
    /\ pc = "done"
    /\ ToSleep
    /\ UNCHANGED <<mode, svcVars, pool>>


(* --------------------------- run_once_impl ----------------------------- *)
\* hyper::Request::builder()...body(String::new()), then the call of
\* send_request
MakeRequest ==
    /\ pc = "request"
    /\ stages' = Append(stages, "Fetching")
    /\ IF UriValid(config_url)
       THEN /\ pc' = "send"
            /\ UNCHANGED <<localVars, result, logged, inflight>>
       ELSE Return("ErrRequest", {"error: make request"})
    /\ UNCHANGED <<mode, svcVars, pool, pool0, started, slept, installed,
                   status, peer_installed>>

\* a fetch that turns a status outside 2xx into an error
SendRequestOkChecked ==
    /\ pc = "send"
    /\ \E st \in Statuses, ct \in ContentTypes, cl \in ContentLengths :
          /\ status' = st
          /\ IF st \in 200..299
             THEN /\ rsp' = [status |-> st, content_type |-> ct, content_length |-> cl]
                  /\ pc' = "content_type"
                  /\ UNCHANGED <<capacity, collected_body, parsed_body, online_config,
                                 streamed, result, logged, inflight>>
             ELSE Return("ErrSend", {"error: get"})
    /\ UNCHANGED <<mode, svcVars, pool, stages, pool0, started, slept, installed,
                   peer_installed>>

\* send_request answers with a response head, whatever its status
SendRequestOk ==
    /\ pc = "send"
    /\ \E st \in Statuses, ct \in ContentTypes, cl \in ContentLengths :
          /\ rsp' = [status |-> st, content_type |-> ct, content_length |-> cl]
          /\ status' = st
    /\ pc' = "content_type"
    /\ UNCHANGED <<mode, svcVars, pool, capacity, collected_body, parsed_body,
                   online_config, streamed, result, stages, logged, pool0,
                   started, inflight, slept, installed, peer_installed>>

\* send_request fails (connection, TLS, DNS)
SendRequestErr ==
    /\ pc = "send"
    /\ Return("ErrSend", {"error: get"})
    /\ UNCHANGED <<mode, svcVars, pool, stages, pool0, started, slept, installed,
                   status, peer_installed>>

\* HeaderValue::to_str: Err for a value with bytes outside visible ASCII
ToStrOk(h) == h # "nonstr"

\* str::parse::<Mime>: Ok(media type) or Err
ParseMime(h) ==
    CASE h = "text/plain" ->
            [ok |-> TRUE, type |-> "text", subtype |-> "plain", charset |-> "none"]
      [] h = "application/json" ->
            [ok |-> TRUE, type |-> "application", subtype |-> "json", charset |-> "none"]
      [] h = "application/json; charset=latin1" ->
            [ok |-> TRUE, type |-> "application", subtype |-> "json", charset |-> "latin1"]
      [] h = "application/json; charset=utf-8" ->
            [ok |-> TRUE, type |-> "application", subtype |-> "json", charset |-> "utf-8"]
      [] OTHER ->
            [ok |-> FALSE, type |-> "none", subtype |-> "none", charset |-> "none"]

\* the log record of the Content-Type match
ContentTypeRecord(h) ==
    IF h = "absent" THEN "warn: missing Content-Type"
    ELSE IF ~ToStrOk(h) THEN "warn: Content-Type is not a UTF-8 string"
    ELSE IF ~ParseMime(h).ok THEN "warn: Content-Type parse failed"
    ELSE IF /\ ParseMime(h).type = "application"
            /\ ParseMime(h).subtype = "json"
            /\ ParseMime(h).charset = "utf-8"
         THEN "trace: checked Content-Type"
    ELSE "warn: Content-Type is not application/json; charset=utf-8"

\* a header check that ends the cycle unless the Content-Type conforms
CheckContentTypeStrict ==
    /\ pc = "content_type"
    /\ stages' = Append(stages, "ValidatingHeaders")
    /\ IF ContentTypeRecord(rsp.content_type) = "trace: checked Content-Type"
       THEN /\ logged' = logged \cup {ContentTypeRecord(rsp.content_type)}
            /\ pc' = "content_length"
            /\ UNCHANGED <<localVars, result, inflight>>
       ELSE Return("ErrContentType", {ContentTypeRecord(rsp.content_type)})
    /\ UNCHANGED <<mode, svcVars, pool, pool0, started, slept, installed,
                   status, peer_installed>>

\* fetch_time, then the match on rsp.headers().get("Content-Type")
CheckContentType ==
    /\ pc = "content_type"
    /\ logged' = logged \cup {ContentTypeRecord(rsp.content_type)}
    /\ stages' = Append(stages, "ValidatingHeaders")
    /\ pc' = "content_length"
    /\ UNCHANGED <<mode, svcVars, pool, localVars, result, histVars>>

\* str::parse::<usize> of the Content-Length value: the number, or -1 for Err
ParseUsize(h) ==
    CASE h = "1" -> 1
      [] OTHER -> -1

\* Vec::new(), the reserve by Content-Length, and rsp.into_data_stream()
ReserveBody ==
    /\ pc = "content_length"
    /\ capacity' = IF rsp.content_length # "absent" /\ ParseUsize(rsp.content_length) >= 0
                   THEN ParseUsize(rsp.content_length)
                   ELSE 0
    /\ collected_body' = <<>>
    /\ rsp' = NoRsp
    /\ stages' = Append(stages, "CollectingBody")
    /\ pc' = "body"
    /\ UNCHANGED <<mode, svcVars, pool, parsed_body, online_config, streamed,
                   result, logged, histVars>>

\* a collection that keeps no more bytes than Content-Length declared
BodyChunkBounded ==
    /\ pc = "body"
    /\ \E data \in SeqsUpTo(Bytes, MaxBody - Len(streamed)) :
          /\ data # <<>>
          /\ collected_body' =
                IF capacity > 0 /\ Len(collected_body \o data) > capacity
                THEN SubSeq(collected_body \o data, 1, capacity)
                ELSE collected_body \o data
          /\ streamed' = streamed \o data
    /\ UNCHANGED <<mode, pc, svcVars, pool, rsp, capacity, parsed_body, online_config,
                   result, stages, logged, histVars>>

\* body.next() yields Some(Ok(data)): collected_body.extend_from_slice(&data);
\* the buffer grows as needed, whatever was reserved
BodyChunk ==
    /\ pc = "body"
    /\ \E data \in SeqsUpTo(Bytes, MaxBody - Len(streamed)) :
          /\ data # <<>>
          /\ collected_body' = collected_body \o data
          /\ streamed' = streamed \o data
    /\ UNCHANGED <<mode, pc, svcVars, pool, rsp, capacity, parsed_body, online_config,
                   result, stages, logged, histVars>>

\* a read error that only ends the loop, keeping the chunks read so far
BodyErrKeepsPartial ==
    /\ pc = "body"
    /\ pc' = "utf8"
    /\ logged' = logged \cup {"error: read body"}
    /\ UNCHANGED <<mode, svcVars, pool, localVars, result, stages, histVars>>

\* body.next() yields Some(Err(err))
BodyErr ==
    /\ pc = "body"
    /\ Return("ErrBody", {"error: read body"})
    /\ UNCHANGED <<mode, svcVars, pool, stages, pool0, started, slept, installed,
                   status, peer_installed>>

\* body.next() yields None: the while-let loop ends
BodyEnd ==
    /\ pc = "body"
    /\ pc' = "utf8"
    /\ UNCHANGED <<mode, svcVars, pool, localVars, result, stages, logged, histVars>>

\* String::from_utf8_lossy: every byte of an invalid sequence becomes U+FFFD
RECURSIVE DecodeLossy(_)
DecodeLossy(b) ==
    IF b = <<>> THEN <<>>
    ELSE IF Head(b) < 128 THEN <<Head(b)>> \o DecodeLossy(Tail(b))
    ELSE IF Head(b) \in 194..223 /\ Len(b) >= 2 /\ b[2] \in 128..191
         THEN <<(Head(b) - 192) * 64 + (b[2] - 128)>> \o DecodeLossy(Tail(Tail(b)))
    ELSE <<65533>> \o DecodeLossy(Tail(b))

\* a decoding step that never fails
FromUtf8Lossy ==
    /\ pc = "utf8"
    /\ stages' = Append(stages, "Decoding")
    /\ parsed_body' = DecodeLossy(collected_body)
    /\ collected_body' = <<>>
    /\ pc' = "load"
    /\ UNCHANGED <<rsp, capacity, online_config, streamed, result, logged, inflight>>
    /\ UNCHANGED <<mode, svcVars, pool, pool0, started, slept, installed,
                   status, peer_installed>>

\* String::from_utf8(collected_body)
FromUtf8 ==
    /\ pc = "utf8"
    /\ stages' = Append(stages, "Decoding")
    /\ IF ValidUtf8(collected_body)
       THEN /\ parsed_body' = DecodeUtf8(collected_body)
            /\ collected_body' = <<>>
            /\ capacity' = 0
            /\ pc' = "load"
            /\ UNCHANGED <<rsp, online_config, streamed, result, logged, inflight>>
       ELSE Return("ErrUtf8", {})
    /\ UNCHANGED <<mode, svcVars, pool, pool0, started, slept, installed,
                   status, peer_installed>>

\* a parsing step that goes on with an empty config when the text is rejected
LoadConfigUnchecked ==
    /\ pc = "load"
    /\ stages' = Append(stages, "Parsing")
    /\ online_config' = IF LoadOk(parsed_body) THEN LoadFromStr(parsed_body)
                        ELSE [server |-> <<>>]
    /\ pc' = "integrity"
    /\ UNCHANGED <<rsp, capacity, collected_body, parsed_body, streamed,
                   result, logged, inflight>>
    /\ UNCHANGED <<mode, svcVars, pool, pool0, started, slept, installed,
                   status, peer_installed>>

\* a parsing step that hands the servers to the balancer as soon as they parse
LoadConfigApplies ==
    /\ pc = "load"
    /\ stages' = Append(stages, "Parsing")
    /\ IF LoadOk(parsed_body)
       THEN /\ online_config' = LoadFromStr(parsed_body)
            /\ pool' = ResetServers(pool, LoadFromStr(parsed_body).server,
                                    ReplaceSources)
            /\ pc' = "integrity"
            /\ UNCHANGED <<rsp, capacity, collected_body, parsed_body, streamed,
                           result, logged, inflight>>
       ELSE /\ Return("ErrLoad", {"error: load"})
            /\ pool' = pool
    /\ UNCHANGED <<mode, svcVars, pool0, started, slept, installed,
                   status, peer_installed>>

\* Config::load_from_str(&parsed_body, ConfigType::OnlineConfig)
LoadConfig ==
    /\ pc = "load"
    /\ stages' = Append(stages, "Parsing")
    /\ IF LoadOk(parsed_body)
       THEN /\ online_config' = LoadFromStr(parsed_body)
            /\ pc' = "integrity"
            /\ UNCHANGED <<rsp, capacity, collected_body, parsed_body, streamed,
                           result, logged, inflight>>
       ELSE Return("ErrLoad", {"error: load"})
    /\ UNCHANGED <<mode, svcVars, pool, pool0, started, slept, installed,
                   status, peer_installed>>

\* an integrity step whose result is ignored
CheckIntegrityIgnored ==
    /\ pc = "integrity"
    /\ stages' = stages \o <<"CheckingIntegrity", "UpdatingPool">>
    /\ pc' = "reset"
    /\ UNCHANGED <<localVars, result, logged, inflight>>
    /\ UNCHANGED <<mode, svcVars, pool, pool0, started, slept, installed,
                   status, peer_installed>>

\* online_config.check_integrity(), after_read_time, and the call of
\* balancer.reset_servers(online_config.server, &[OnlineConfig])
CheckIntegrity ==
    /\ pc = "integrity"
    /\ IF CheckIntegrityOk(online_config)
       THEN /\ stages' = stages \o <<"CheckingIntegrity", "UpdatingPool">>
            /\ pc' = "reset"
            /\ UNCHANGED <<localVars, result, logged, inflight>>
       ELSE /\ stages' = Append(stages, "CheckingIntegrity")
            /\ Return("ErrIntegrity", {"error: integrity"})
    /\ UNCHANGED <<mode, svcVars, pool, pool0, started, slept, installed,
                   status, peer_installed>>

\* reset_servers returns Ok: the balancer holds the new list; finish_time,
\* the debug record, Ok(())
ResetServersOk ==
    /\ pc = "reset"
    /\ pool' = ResetServers(pool, online_config.server, ReplaceSources)
    /\ installed' = [ok |-> TRUE, server |-> online_config.server]
    /\ Return("Ok", {"debug: finished loading"})
    /\ UNCHANGED <<mode, svcVars, stages, pool0, started, slept, status,
                   peer_installed>>

\* a failed reset that falls through to the debug record before returning
ResetServersErrLogged ==
    /\ pc = "reset"
    /\ Return("ErrReset", {"error: reset balancer", "debug: finished loading"})
    /\ UNCHANGED <<mode, svcVars, pool, stages, pool0, started, slept, installed,
                   status, peer_installed>>

\* reset_servers returns Err(err): return Err(err)
ResetServersErr ==
    /\ pc = "reset"
    /\ Return("ErrReset", {"error: reset balancer"})
    /\ UNCHANGED <<mode, svcVars, pool, stages, pool0, started, slept, installed,
                   status, peer_installed>>

\* a timer that covers the request only, not the body or the pool update
SuspendedInSend == pc = "send"

\* positions where run_once_impl is suspended on an await
Suspended == pc \in {"send", "body", "reset"}

\* a timeout that does not stop a pool update under way
TimeoutAfterUpdate ==
    /\ Suspended
    /\ pool' = IF pc = "reset"
               THEN ResetServers(pool, online_config.server, {"OnlineConfig"})
               ELSE pool
    /\ Return("ErrTimedOut", {"error: task timeout"})
    /\ UNCHANGED <<mode, svcVars, stages, pool0, started, slept, installed,
                   status, peer_installed>>

\* time::timeout: the timer fires while run_once_impl is suspended; the
\* future is dropped and run_once returns ErrorKind::TimedOut
Timeout ==
    /\ Suspended
    /\ Return("ErrTimedOut", {"error: task timeout"})
    /\ UNCHANGED <<mode, svcVars, pool, stages, pool0, started, slept, installed,
                   status, peer_installed>>

(* ------------------------------- Next ---------------------------------- *)
Next ==
    \/ SetUpdateInterval
    \/ Build
    \/ BuildReturn
    \/ Run
    \/ Sleep
    \/ RunDiscard
    \/ MakeRequest
    \/ SendRequestOk
    \/ SendRequestErr
    \/ CheckContentType
    \/ ReserveBody
    \/ BodyChunk
    \/ BodyErr
    \/ BodyEnd
    \/ FromUtf8
    \/ LoadConfig
    \/ CheckIntegrity
    \/ ResetServersOk
    \/ ResetServersErr
    \/ Timeout

Spec == Init /\ [][Next]_vars


(* ------------------------- vocabulary of claims ------------------------ *)
OnlineTag == {"OnlineConfig"}
OtherTags == Sources \ OnlineTag
ErrorRecords == {"error: make request", "error: get", "error: read body",
                 "error: load", "error: integrity", "error: reset balancer",
                 "error: task timeout"}
Failures == {"ErrRequest", "ErrSend", "ErrBody", "ErrUtf8", "ErrLoad",
             "ErrIntegrity", "ErrReset", "ErrTimedOut"}
InStages(st) == \E i \in 1..Len(stages) : stages[i] = st

(* C1: no step changes the entries tagged with a source other than
   OnlineConfig, in count, content or order, and the pool changes only in the
   step in which reset_servers returns Ok. *)
C1_OtherSourcesUntouched ==
    [][/\ Tagged(pool', OtherTags) = Tagged(pool, OtherTags)
       /\ (pool' # pool => pc = "reset" /\ pc' = "done" /\ result' = "Ok")]_vars

C1_Witness ==
    /\ pc = "done" /\ result = "Ok" /\ mode = "run"
    /\ pool # pool0
    /\ Tagged(pool, OtherTags) # <<>>
    /\ Tagged(pool0, OnlineTag) # <<>>

(* C2: when a cycle has ended Ok with a parsed server list of size N, the
   entries of the pool tagged OnlineConfig are exactly that list: N entries,
   none of the older OnlineConfig entries among them unless the list holds it. *)
C2_ExactlyTheParsedList ==
    (pc = "done" /\ result = "Ok") =>
        /\ installed.ok
        /\ Tagged(pool, OnlineTag) = installed.server
        /\ Len(Tagged(pool, OnlineTag)) = Len(installed.server)
        /\ Len(pool) = Len(installed.server) + Len(Tagged(pool0, OtherTags))

C2_Witness ==
    /\ pc = "done" /\ result = "Ok"
    /\ Len(installed.server) = 2
    /\ Len(Tagged(pool0, OnlineTag)) = 1
    /\ Tagged(pool0, OnlineTag)[1].id = "b"
    /\ installed.server[1].id = "a"
    /\ Tagged(pool0, OtherTags) # <<>>

(* C3: when the deadline fires, in whichever stage the cycle is suspended
   (the request, a body read or the pool update), run_once returns TimedOut,
   no other failure is recorded, and the pool is as it was when the cycle
   started. *)
C3_TimeoutLeavesPool ==
    (pc = "done" /\ result = "ErrTimedOut") =>
        /\ pool = pool0
        /\ logged \cap ErrorRecords = {"error: task timeout"}
        /\ ~("debug: finished loading" \in logged)

C3_Witness ==
    /\ pc = "done" /\ result = "ErrTimedOut"
    /\ InStages("UpdatingPool")
    /\ Tagged(pool, OnlineTag) # <<>>
    /\ mode = "run"

(* C4: build runs exactly one cycle and no sleep; it returns the service
   exactly when that cycle returned Ok, and otherwise ends with the cycle's
   error; run is only ever entered after a first cycle that returned Ok. *)
C4_BuildRunsOneCycle ==
    /\ mode \in {"build", "built", "failed"} => started = "one" /\ slept = 0
    /\ mode = "build" /\ pc = "done" => result \in Failures \cup {"Ok"}
    /\ mode = "built" => result = "Ok" /\ installed.ok
    /\ mode = "failed" => result \in Failures
    /\ mode = "run" => installed.ok
    /\ mode = "builder" => started = "none" /\ pc = "idle"

C4_Witness ==
    /\ mode = "failed"
    /\ result = "ErrIntegrity"
    /\ pool = pool0


(* ------------------------------ fairness ------------------------------- *)
\* the steps the task takes by itself once it is polled
TaskStep ==
    \/ MakeRequest
    \/ CheckContentType
    \/ ReserveBody
    \/ FromUtf8
    \/ LoadConfig
    \/ CheckIntegrity
    \/ BuildReturn
    \/ RunDiscard

\* the runtime polls a ready task, and the timers of time::sleep and
\* time::timeout fire; the remote and the balancer owe no answer
LiveSpec ==
    /\ Init
    /\ [][Next]_vars
    /\ WF_vars(TaskStep)
    /\ WF_vars(Sleep)
    /\ WF_vars(Timeout)

(* C5: once run is entered it is never left; in run a cycle starts only from
   the sleep, the step after the sleep starts a cycle, a finished cycle of
   whatever result leads back to the sleep, and cycles start again and
   again. *)
C5_RunNeverReturns ==
    /\ [][mode = "run" => mode' = "run"]_vars
    /\ [][(mode = "run" /\ pc' = "request") => (pc = "sleep" /\ inflight = 0)]_vars
    /\ [][(mode = "run" /\ pc = "sleep") => pc' = "request"]_vars
    /\ [][(mode = "run" /\ pc = "done") => (pc' = "sleep" /\ mode' = "run")]_vars
    /\ (mode = "run") ~> (pc = "request")
    /\ (mode = "run" /\ pc = "done" /\ result \in Failures) ~> (pc = "request")

C5_Witness ==
    /\ mode = "run" /\ pc = "request"
    /\ started = "many"
    /\ slept = config_update_interval
    /\ installed.ok


(* C6: when a cycle of run has failed, the pool is as the cycle found it and
   its OnlineConfig entries are the list of the last Ok cycle; the failed
   result is discarded, and the next cycle starts from the same pool with
   nothing left over from the failed one. *)
C6_FailureKeepsLastGood ==
    /\ [][(mode = "run" /\ pc = "done" /\ result \in Failures) =>
            /\ pc' = "sleep" /\ mode' = "run"
            /\ pool' = pool /\ pool = pool0
            /\ Tagged(pool, OnlineTag) = installed.server]_vars
    /\ [][(mode = "run" /\ pc = "sleep" /\ result \in Failures) =>
            /\ pc' = "request" /\ pool' = pool /\ pool0' = pool
            /\ result' = "none" /\ logged' = {} /\ stages' = <<>>
            /\ collected_body' = <<>> /\ online_config' = NoConfig]_vars
    /\ [](mode = "run" => Tagged(pool, OnlineTag) = installed.server)

C6_Witness ==
    /\ mode = "run" /\ pc = "sleep"
    /\ result = "ErrSend"
    /\ started = "many"
    /\ installed.ok /\ Len(installed.server) = 2
    /\ Tagged(pool, OnlineTag) = installed.server

(* C7: at most one cycle of the instance is in flight: the count of cycles
   started and not ended is 0 or 1, it is 1 exactly while the task is inside
   run_once, and the pool update is reached only by that one cycle. *)
C7_OneCycleInFlight ==
    /\ inflight \in {0, 1}
    /\ inflight = 1 <=> pc \notin {"idle", "sleep", "done"}
    /\ pc = "reset" => inflight = 1
    /\ InStages("UpdatingPool") =>
          Cardinality({i \in 1..Len(stages) : stages[i] = "UpdatingPool"}) = 1

C7_Witness ==
    /\ mode = "run" /\ pc = "reset"
    /\ inflight = 1
    /\ started = "many"

(* C8: a cycle that ends Ok with the server list the last Ok cycle handed
   over leaves the pool as it is: running the same successful cycle again
   changes nothing. *)
C8_SameCycleTwice ==
    [][(pc = "reset" /\ result' = "Ok" /\ installed.ok
          /\ installed.server = online_config.server) => pool' = pool]_vars

C8_Witness ==
    /\ pc = "done" /\ result = "Ok" /\ mode = "run"
    /\ pool = pool0
    /\ Len(installed.server) = 2
    /\ Tagged(pool, OtherTags) # <<>>

(* C9: a config that check_integrity rejects ends the cycle with the
   integrity error; reset_servers is not called and the pool is unchanged. *)
C9_IntegrityRejects ==
    /\ [][(pc = "integrity" /\ ~CheckIntegrityOk(online_config)) =>
            /\ pc' = "done" /\ result' = "ErrIntegrity"
            /\ pool' = pool
            /\ stages' = Append(stages, "CheckingIntegrity")]_vars
    /\ [](result = "ErrIntegrity" =>
            /\ ~InStages("UpdatingPool")
            /\ pool = pool0
            /\ "error: integrity" \in logged)

C9_Witness ==
    /\ pc = "done" /\ result = "ErrIntegrity" /\ mode = "run"
    /\ Tagged(pool, OnlineTag) # <<>>

(* C10: a collected body that is not valid UTF-8 ends the cycle with the
   encoding error; load_from_str, check_integrity and reset_servers are not
   called and the pool is unchanged; the text handed to the parser is always
   the exact decoding of the bytes streamed, never a lossy one. *)
C10_NonUtf8Rejects ==
    /\ [][(pc = "utf8" /\ ~ValidUtf8(collected_body)) =>
            /\ pc' = "done" /\ result' = "ErrUtf8"
            /\ pool' = pool
            /\ parsed_body' = <<>>]_vars
    /\ [](result = "ErrUtf8" =>
            /\ ~InStages("Parsing")
            /\ ~InStages("CheckingIntegrity")
            /\ ~InStages("UpdatingPool")
            /\ pool = pool0)
    /\ [](pc \in {"load", "integrity", "reset"} =>
            /\ ValidUtf8(streamed)
            /\ parsed_body = DecodeUtf8(streamed))

C10_Witness ==
    /\ pc = "done" /\ result = "ErrUtf8" /\ mode = "run"
    /\ stages = <<"Fetching", "ValidatingHeaders", "CollectingBody", "Decoding">>
    /\ Tagged(pool, OnlineTag) # <<>>

(* C11: whatever the Content-Type of the response (absent, not a string,
   unparsable, another type, another or no charset, or the expected one), the
   header check only writes one log record and goes on to the body: it fails
   no cycle, changes neither the pool nor any local, and once it is over
   nothing of the header is left that a later step could read. *)
C11_ContentTypeAdvisory ==
    /\ [][pc = "content_type" =>
            /\ pc' = "content_length"
            /\ logged' = logged \cup {ContentTypeRecord(rsp.content_type)}
            /\ UNCHANGED <<mode, pool, rsp, capacity, collected_body, parsed_body,
                           online_config, streamed, result, inflight, status>>]_vars
    /\ [](pc \notin {"content_type", "content_length"} => rsp = NoRsp)
    /\ [](result \in {"none", "Ok"} \cup Failures)

C11_Witness ==
    /\ pc = "done" /\ result = "Ok"
    /\ "warn: Content-Type is not a UTF-8 string" \in logged
    /\ pool # pool0
    /\ Len(installed.server) = 2

\* the stages of a cycle, in the order of run_once_impl
StageOrder == <<"Fetching", "ValidatingHeaders", "CollectingBody", "Decoding",
                "Parsing", "CheckingIntegrity", "UpdatingPool">>

\* the first n stages
StagesUpTo(n) == SubSeq(StageOrder, 1, n)

\* the last stage entered
LastStage == IF stages = <<>> THEN "none" ELSE stages[Len(stages)]

(* C12: the stages of a cycle are entered in the order Fetching,
   ValidatingHeaders, CollectingBody, Decoding, Parsing, CheckingIntegrity,
   UpdatingPool, none skipped and none repeated; a stage is entered only
   after the one before it succeeded, and the cycle ends in the first stage
   that fails: each error is the error of the last stage entered. *)
C12_StagesInOrder ==
    /\ \E n \in 0..Len(StageOrder) : stages = StagesUpTo(n)
    /\ pc = "request" => stages = <<>>
    /\ pc \in {"send", "content_type"} => stages = StagesUpTo(1)
    /\ pc = "content_length" => stages = StagesUpTo(2)
    /\ pc \in {"body", "utf8"} => stages = StagesUpTo(3)
    /\ pc = "load" =>
          /\ stages = StagesUpTo(4)
          /\ ValidUtf8(streamed) /\ parsed_body = DecodeUtf8(streamed)
    /\ pc = "integrity" =>
          /\ stages = StagesUpTo(5)
          /\ LoadOk(parsed_body) /\ online_config = LoadFromStr(parsed_body)
    /\ pc = "reset" =>
          /\ stages = StagesUpTo(7)
          /\ LoadOk(parsed_body) /\ CheckIntegrityOk(online_config)
    /\ result \in {"ErrRequest", "ErrSend"} => stages = StagesUpTo(1)
    /\ result = "ErrBody" => stages = StagesUpTo(3)
    /\ result = "ErrUtf8" => stages = StagesUpTo(4)
    /\ result = "ErrLoad" => stages = StagesUpTo(5)
    /\ result = "ErrIntegrity" => stages = StagesUpTo(6)
    /\ result \in {"ErrReset", "Ok"} => stages = StagesUpTo(7)
    /\ result = "ErrTimedOut" =>
          LastStage \in {"Fetching", "CollectingBody", "UpdatingPool"}
    /\ (pc = "done" /\ result = "ErrUtf8") => ~ValidUtf8(streamed)
    /\ (pc = "done" /\ result \in {"ErrLoad", "ErrIntegrity"}) => ValidUtf8(streamed)

C12_Witness ==
    /\ pc = "done" /\ result = "ErrLoad"
    /\ stages = StagesUpTo(5)
    /\ Len(streamed) = 2
    /\ pool = pool0

(* C13: the pool update is the only step of a cycle that changes the pool
   and it is the last one: while a cycle is in flight the pool is what it was
   when the cycle started; the pool changes only in the step that ends the
   cycle Ok, taken from the reset_servers call, which is entered at most once
   per cycle and only after fetching, header checks, body collection,
   decoding, parsing and the integrity check have all succeeded on the bytes
   streamed. *)
C13_PoolUpdateLast ==
    /\ [](inflight = 1 => pool = pool0)
    /\ [][pool' # pool =>
            /\ pc = "reset" /\ stages = StagesUpTo(7)
            /\ pc' = "done" /\ result' = "Ok" /\ inflight' = 0
            /\ pool = pool0
            /\ pool' = ResetServers(pool0, online_config.server, ReplaceSources)]_vars
    /\ [](pc = "reset" =>
            /\ ValidUtf8(streamed)
            /\ LoadOk(DecodeUtf8(streamed))
            /\ online_config = LoadFromStr(DecodeUtf8(streamed))
            /\ CheckIntegrityOk(online_config)
            /\ \A st \in {"Fetching", "ValidatingHeaders", "CollectingBody",
                          "Decoding", "Parsing", "CheckingIntegrity"} :
                  InStages(st))
    /\ [](Cardinality({i \in 1..Len(stages) : stages[i] = "UpdatingPool"}) <= 1)
    /\ []((pc = "done" /\ pool # pool0) => result = "Ok")

C13_Witness ==
    /\ pc = "done" /\ result = "Ok" /\ mode = "run"
    /\ pool # pool0
    /\ pool0 # <<>>
    /\ stages = StagesUpTo(7)
    /\ started = "many"

(* C14: when reset_servers itself fails, the cycle ends at once with the
   balancer's own error (not one of the errors the service makes up), the
   debug record of a finished cycle is not written, and the pool holds what
   it held when the cycle started; build fails on it, run discards it and
   goes to sleep. *)
C14_ResetFailure ==
    /\ [][(pc = "reset" /\ result' = "ErrReset") =>
            /\ pc' = "done" /\ inflight' = 0
            /\ pool' = pool /\ installed' = installed
            /\ logged' = logged \cup {"error: reset balancer"}]_vars
    /\ [](result = "ErrReset" =>
            /\ pool = pool0
            /\ stages = StagesUpTo(7)
            /\ "error: reset balancer" \in logged
            /\ "debug: finished loading" \notin logged)
    /\ [][(mode = "build" /\ pc = "done" /\ result = "ErrReset") =>
            (mode' = "failed" /\ result' = "ErrReset" /\ pool' = pool)]_vars
    /\ [][(mode = "run" /\ pc = "done" /\ result = "ErrReset") =>
            (mode' = "run" /\ pc' = "sleep" /\ pool' = pool)]_vars
    /\ []("debug: finished loading" \in logged <=> result = "Ok")

C14_Witness ==
    /\ mode = "run" /\ pc = "sleep" /\ result = "ErrReset"
    /\ installed.ok
    /\ Tagged(pool, OnlineTag) = installed.server
    /\ Len(installed.server) = 2

(* C15: the status code of the response never fails a cycle: a response head
   of any status is taken on to the header checks and the body collection,
   which never look at the status, and a cycle whose response had a status
   outside 2xx ends by what its body is: it is decoded, parsed and
   integrity-checked, and when those succeed the pool is updated from it. *)
C15_StatusIgnored ==
    /\ [][(pc = "send" /\ status' # 0) =>
            /\ pc' = "content_type" /\ result' = "none" /\ inflight' = 1
            /\ rsp'.status = status']_vars
    /\ [][(pc \in {"content_type", "content_length"}) =>
            /\ pc' \in {"content_length", "body"} /\ result' = "none"
            /\ status' = status]_vars
    /\ [](status \in {0} \cup Statuses)
    /\ []((pc = "done" /\ status # 0 /\ status \notin 200..299) =>
            /\ result \in {"ErrBody", "ErrUtf8", "ErrLoad", "ErrIntegrity",
                           "ErrReset", "ErrTimedOut", "Ok"}
            /\ result = "ErrUtf8" <=> (LastStage = "Decoding")
            /\ result = "ErrUtf8" => ~ValidUtf8(streamed)
            /\ result = "ErrLoad" =>
                  ValidUtf8(streamed) /\ ~LoadOk(DecodeUtf8(streamed))
            /\ result = "ErrIntegrity" =>
                  /\ ValidUtf8(streamed) /\ LoadOk(DecodeUtf8(streamed))
                  /\ ~CheckIntegrityOk(LoadFromStr(DecodeUtf8(streamed)))
            /\ result = "Ok" =>
                  /\ ValidUtf8(streamed) /\ LoadOk(DecodeUtf8(streamed))
                  /\ CheckIntegrityOk(LoadFromStr(DecodeUtf8(streamed)))
                  /\ pool = ResetServers(pool0,
                                LoadFromStr(DecodeUtf8(streamed)).server,
                                ReplaceSources))

C15_Witness ==
    /\ pc = "done" /\ result = "Ok"
    /\ status = 404
    /\ Len(streamed) = 2
    /\ pool # pool0

(* C16: a read error on a body chunk, the first one or one after chunks read
   without error, ends the cycle at once with the body-read error: the chunks
   collected so far are dropped, the cycle enters no decoding, parsing,
   integrity or pool-update stage, and the pool is unchanged. *)
C16_BodyReadError ==
    /\ [][(pc = "body" /\ "error: read body" \in logged') =>
            /\ pc' = "done" /\ result' = "ErrBody" /\ inflight' = 0
            /\ collected_body' = <<>> /\ parsed_body' = <<>>
            /\ online_config' = NoConfig
            /\ pool' = pool /\ stages' = stages]_vars
    /\ [](result = "ErrBody" =>
            /\ stages = StagesUpTo(3)
            /\ pool = pool0
            /\ collected_body = <<>> /\ parsed_body = <<>>
            /\ online_config = NoConfig
            /\ "error: read body" \in logged)
    /\ []("error: read body" \in logged => result = "ErrBody")

C16_Witness ==
    /\ pc = "done" /\ result = "ErrBody"
    /\ Len(streamed) = 2
    /\ ValidUtf8(streamed) /\ LoadOk(DecodeUtf8(streamed))
    /\ Tagged(pool, OnlineTag) # <<>>

(* C17: Content-Length is only a capacity hint: whether the header is absent,
   unparsable, or declares less than, as much as or more than the body
   holds, reserving fails no cycle, every chunk is appended whole in arrival
   order, the collected body is exactly the bytes streamed, and the decoding
   step is decided by those bytes alone. *)
C17_ContentLengthHint ==
    /\ [][pc = "content_length" =>
            /\ pc' = "body" /\ result' = "none" /\ inflight' = 1
            /\ collected_body' = <<>>
            /\ capacity' = (IF rsp.content_length = "1" THEN 1 ELSE 0)
            /\ pool' = pool]_vars
    /\ [][(pc = "body" /\ streamed' # streamed /\ pc' = "body") =>
            /\ Len(streamed') > Len(streamed)
            /\ collected_body' = collected_body \o
                  SubSeq(streamed', Len(streamed) + 1, Len(streamed'))
            /\ result' = "none"]_vars
    /\ [](pc \in {"body", "utf8"} =>
            /\ collected_body = streamed
            /\ capacity \in {0, 1}
            /\ result = "none")
    /\ [][pc = "utf8" =>
            /\ (ValidUtf8(streamed) => pc' = "load" /\ parsed_body' = DecodeUtf8(streamed))
            /\ (~ValidUtf8(streamed) => result' = "ErrUtf8")]_vars

C17_Witness ==
    /\ pc = "utf8"
    /\ capacity = 1
    /\ Len(collected_body) = 2
    /\ collected_body = streamed
    /\ ValidUtf8(collected_body)

(* C18: under the fairness of LiveSpec, where the remote owes no answer and
   the body stream no end, every cycle that started ends, with Ok, a stage
   error or the timeout, because the timer can fire at every point where the
   cycle waits; so build returns, built or failed, and every iteration of
   run comes to its next sleep. *)
C18_CyclesEnd ==
    /\ (inflight = 1) ~> (inflight = 0 /\ result \in Failures \cup {"Ok"})
    /\ (mode = "build") ~> (mode \in {"built", "failed"})
    /\ (mode = "run" /\ pc # "sleep") ~> (mode = "run" /\ pc = "sleep")

C18_Witness ==
    /\ mode = "run" /\ pc = "sleep"
    /\ result = "ErrTimedOut"
    /\ LastStage = "CollectingBody"
    /\ started = "many"
    /\ slept = 60

(* C19: no retry inside a cycle and no backoff between cycles: a cycle makes
   its request once, a failed cycle is followed by the sleep (or, in build,
   by the return) and never by a second attempt, every sleep of run lasts the
   configured interval whatever the result of the cycle before it, and once
   build has been called neither the interval (3600 s by default, or the
   value last set on the builder) nor the URL changes. *)
C19_NoRetryNoBackoff ==
    /\ [][(mode = "run" /\ pc = "sleep") =>
            (pc' = "request" /\ slept' = config_update_interval)]_vars
    /\ [][pc' = "request" =>
            (pc \in {"idle", "sleep"} /\ inflight = 0 /\ stages' = <<>>)]_vars
    /\ [][pc' = "send" => (pc = "request" /\ stages' = StagesUpTo(1))]_vars
    /\ [][(pc = "done" /\ result \in Failures) =>
            (pc' \in {"sleep", "idle"} /\ stages' = stages)]_vars
    /\ [][mode # "builder" =>
            (config_url' = config_url
               /\ config_update_interval' = config_update_interval)]_vars
    /\ [][(mode = "builder" /\ config_update_interval' # config_update_interval) =>
            (mode' = "builder" /\ config_update_interval' \in Intervals)]_vars
    /\ [](started = "none" /\ mode = "builder" =>
            config_update_interval \in {DefaultInterval} \cup Intervals)
    /\ [](Cardinality({i \in 1..Len(stages) : stages[i] = "Fetching"}) <= 1)
    /\ [](slept \in {0, config_update_interval})

C19_Witness ==
    /\ mode = "run" /\ pc = "done"
    /\ result = "ErrSend"
    /\ started = "many"
    /\ slept = 60 /\ config_update_interval = 60

(* ------------------- two services sharing one balancer ----------------- *)
\* the server lists a cycle of another service can hand to reset_servers:
\* parsed by load_from_str and passed by check_integrity
PeerLists ==
    {LoadFromStr(t).server : t \in
        {u \in SeqsUpTo({97, 98}, MaxPool) : CheckIntegrityOk(LoadFromStr(u))}}

\* the last step of an Ok cycle of another OnlineConfigService, built with
\* another config_url on the same balancer: the same reset_servers call,
\* with the same &[ServerSource::OnlineConfig]
PeerResetServersOk ==
    /\ mode # "builder"
    /\ \E servers \in PeerLists :
          /\ pool' = ResetServers(pool, servers, ReplaceSources)
          /\ peer_installed' = [ok |-> TRUE, server |-> servers]
    /\ UNCHANGED <<mode, pc, svcVars, localVars, result, stages, logged, pool0,
                   started, inflight, slept, installed, status>>

SharedNext == Next \/ PeerResetServersOk

SharedSpec == Init /\ [][SharedNext]_vars

\* the entries of list that pool p holds
Held(p, list) == {i \in 1..Len(list) : \E j \in 1..Len(p) : p[j] = list[i]}

(* C20: with two services of different URLs on one pool, an Ok cycle of this
   service leaves in the pool every entry the other service installed. *)
C20_PeerEntriesKept ==
    [][(pc = "reset" /\ result' = "Ok" /\ peer_installed.ok) =>
          Held(pool, peer_installed.server) \subseteq
             Held(pool', peer_installed.server)]_vars

====
